---- MODULE Spec2Model ----
(***************************************************************************)
(* Spiking neural network solvers of PdS-SpikingNN.                        *)
(*                                                                         *)
(*   NN::solve      (src/nn/mod.rs)       the concurrent pipeline          *)
(*   Solver::solve  (src/nn/solver_v1.rs) the sequential reference         *)
(*   LifNeuron      (src/nn/model/lif.rs) the neuron model                 *)
(*   LayerManager   (crate::sync)         modelled from spec.md section 4.3*)
(*                                                                         *)
(* Reals are fixed point numbers with one decimal: the integer 12 stands   *)
(* for 1.2.  Neurons, layers and channels are numbered from 1: neuron_id n *)
(* of the code is n + 1 here, self.layers[k] is layer k + 1, and chan[k]   *)
(* is the channel that carries the events sent by layer k.                 *)
(***************************************************************************)
EXTENDS Integers, Sequences, FiniteSets, TLC

\* ------------------------------------------------------------------ bounds
\* Longest input spike sequence handed to solve.
MaxInputs == 2
\* --------------------------------------------------------------- constants
\* One unit of the fixed point representation: 1.0.
Scale == 10
\* The firing rule `output > 0.5` of NN::solve.
FiringThreshold == 5
\* The rule `val > 0.0` of to_u128_vec.
SeqThreshold == 0
\* u128::MAX, the "did not fire" mark of to_u128_vec: the largest timestamp
\* there is (the model's timestamps are four bits wide).
U128_MAX == 15

\* Option<T>
None == <<>>
Some(x) == <<x>>
IsSome(o) == o # <<>>
Unwrap(o) == o[1]

\* ------------------------------------------------------------ linear algebra
RECURSIVE SumTo(_, _)
SumTo(f, n) == IF n = 0 THEN 0 ELSE f[n] + SumTo(f, n - 1)

\* Array2 (1 x n) . Array2 (n x m), row 0 of the result.
Dot(v, M, n, m) ==
    [j \in 1..m |-> SumTo([i \in 1..n |-> v[i] * M[i][j]], n) \div Scale]

\* row(r) of a matrix times a scalar.
RowTimes(M, r, x, m) == [j \in 1..m |-> (M[r][j] * x) \div Scale]

RECURSIVE Pow2(_)
Pow2(n) == IF n = 0 THEN 1 ELSE 2 * Pow2(n - 1)

\* ------------------------------------------------------------- neuron model
\* LifNeuronConfig of the test fixture (v_mem 2.0, v_rest 0.5, v_reset 2.1,
\* v_threshold 1.0); tau is 1.0.
Cfg == [v_mem_current |-> 20, v_rest |-> 5, v_reset |-> 21,
        v_threshold |-> 10, tau |-> 10]

\* LifNeuron::new: the mutable fields of a fresh neuron.
NewNeuron == [v_mem_current |-> Cfg.v_mem_current, v_mem_old |-> 0,
              ts_old |-> 0, ts_curr |-> 0]

\* f64::exp of (delta_t / tau).  handle_spike only ever passes delta_t = 0
\* (ts_old and ts_curr are never written), where exp is exactly 1.0; any other
\* argument is given its first-order value.
Exp(delta_t, tau) == IF delta_t = 0 THEN Scale ELSE Scale + (delta_t * Scale) \div tau

\* let delta_t: f64 = (self.ts_old - self.ts_curr) as f64
DeltaT(st) == st.ts_old - st.ts_curr

\* The membrane tension computed from the neuron's current tension.
VMemFromCurrent(st, weighted_input_val) ==
    LET delta_t == DeltaT(st)
    IN  Cfg.v_rest
        + ((st.v_mem_current - Cfg.v_rest) * Exp(delta_t, Cfg.tau)) \div Scale
        + weighted_input_val

\* The membrane tension handle_spike computes before the threshold test.
VMem(st, weighted_input_val) ==
    LET delta_t == DeltaT(st)
    IN  Cfg.v_rest
        + ((st.v_mem_old - Cfg.v_rest) * Exp(delta_t, Cfg.tau)) \div Scale
        + weighted_input_val

\* handle_spike, the value handed back: Some(spike) is the activation 1.0,
\* None is 0.0.  The timestamp is not used by the neuron.
HandleSpikeOut(st, weighted_input_val, ts) ==
    IF VMem(st, weighted_input_val) > Cfg.v_threshold THEN Scale ELSE 0

\* handle_spike, the neuron's variables afterwards.
HandleSpikeVars(st, weighted_input_val, ts) ==
    LET v == VMem(st, weighted_input_val)
    IN  [st EXCEPT !.v_mem_current = IF v > Cfg.v_threshold THEN Cfg.v_reset ELSE v]

\* ------------------------------------------------------------------ networks
\* NN { input_weights, layers: (neurons, intra weights), synapses }.
\* dims[k] is the number of neurons of layer k.
MkNet(dims, input_weights, intra, synapses) ==
    [dims |-> dims, input_weights |-> input_weights, intra |-> intra,
     synapses |-> synapses]

Zero1 == << <<0>> >>
Zero2 == << <<0, 0>>, <<0, 0>> >>
\* the inhibitory intra-layer weights of test_solve_nn, layer 0
Inhib2 == << <<0, -8>>, <<-6, 0>> >>
\* neuron 1 excites neuron 2
Excite12 == << <<0, 20>>, <<0, 0>> >>
\* the two neurons excite each other
Excite2 == << <<0, 20>>, <<20, 0>> >>
\* synapse meshes
Mesh22 == << <<15, 12>>, <<12, 14>> >>
Diag22 == << <<20, 0>>, <<0, 20>> >>
Mesh21 == << <<15>>, <<12>> >>
Mesh11 == << <<15>> >>

\* One layer of one neuron whose input weight is zero.
SingleZeroNet == MkNet(<<1>>, <<0>>, <<Zero1>>, <<>>)

\* The network of test_passthrough_nn_using_solver: one layer, every input
\* weight 1.0, no intra-layer weight.
PassthroughNet == MkNet(<<2>>, <<Scale, Scale>>, <<Zero2>>, <<>>)

EntryLayers ==
    {<<iw, m>> : iw \in {<<12, 23>>, <<12, 0>>},
                 m \in {Zero2, Inhib2, Excite12, Excite2}}

Networks ==
    {MkNet(<<2>>, e[1], <<e[2]>>, <<>>) : e \in EntryLayers}
    \cup {MkNet(<<2, 2>>, <<12, 23>>, <<Inhib2, Inhib2>>, <<Mesh22>>),
          MkNet(<<2, 2>>, <<12, 23>>, <<Zero2, Excite2>>, <<Diag22>>),
          MkNet(<<2, 2>>, <<12, 0>>, <<Excite12, Zero2>>, <<Diag22>>),
          MkNet(<<2, 1>>, <<12, 23>>, <<Excite2, Zero1>>, <<Mesh21>>),
          MkNet(<<2, 1, 1>>, <<12, 23>>, <<Inhib2, Zero1, Zero1>>, <<Mesh21, Mesh11>>),
          SingleZeroNet}

LayerIds == 1..3
NeuronIds == 1..2
NumLayers(n) == Len(n.dims)

\* Spike { ts, neuron_id }
Spike(ts, neuron_id) == [ts |-> ts, neuron_id |-> neuron_id]

IsSorted(s) == \A i \in 1..(Len(s) - 1) : s[i].ts <= s[i + 1].ts

RECURSIVE SpikeSeqs(_, _)
\* The spike sequences of length n, addressed to the neurons ids, that are
\* sorted by timestamp: the first spike is at time 1, each later one at the time
\* of the spike before it (a simultaneous spike) or one unit later.
SpikeSeqs(n, ids) ==
    IF n = 0 THEN {<<>>}
    ELSE IF n = 1 THEN {<<Spike(1, neuron_id)>> : neuron_id \in ids}
    ELSE {Append(s, Spike(s[n - 1].ts + d, neuron_id)) :
            s \in SpikeSeqs(n - 1, ids), d \in {0, 1}, neuron_id \in ids}

RECURSIVE AnySeqs(_, _)
\* The spike sequences of length n with timestamps in any order.
AnySeqs(n, ids) ==
    IF n = 0 THEN {<<>>}
    ELSE {Append(s, Spike(ts, neuron_id)) :
            s \in AnySeqs(n - 1, ids), ts \in 1..MaxInputs, neuron_id \in ids}

\* Every Vec<Spike> solve can be handed on the network nt: timestamps in any
\* order, neuron ids of the entry layer or the first index past its end.
AnyInputs(nt) == UNION {AnySeqs(n, 1..(nt.dims[1] + 1)) : n \in 0..MaxInputs}

\* The well-formed inputs of solve on the network nt: sorted by timestamp
\* (Spike::create_terminal_vec sorts them), neuron ids of the entry layer.
InputSeqs(nt) == UNION {SpikeSeqs(n, 1..nt.dims[1]) : n \in 0..MaxInputs}

\* ---------------------------------------------------------------- the state
VARIABLES
    net,            \* self: the network solve is called on
    spikes,         \* the argument of solve
    call,           \* a call of one of the crate's functions outside a solve
    pc,             \* where the calling thread is: "spawn", "loop", "drop",
                    \* "drain", "done" ("panic": it panicked; "idle": no solve)
    inputs,         \* spikes.into_iter(): index of the next spike
    cur_ts,
    intra_inputs,   \* Option<Array1<f64>>
    layer,          \* SolverVars of the entry layer's neurons
    chan,           \* chan[k]: events sent by layer k and not yet received
    closed,         \* closed[k]: the sender of chan[k] has been dropped
    mgr,            \* mgr[k]: the LayerManager of layer k >= 2
    worker,         \* worker[k][i]: the thread of neuron i of layer k >= 2
    output,         \* the spikes collected from the last receiver
    overflow,       \* a send found its channel at the model's capacity
    ehist,          \* the last two steps of the entry layer loop
    sent,           \* sent[k]: timestamps of the last two events sent on chan[k]
    fwd             \* fwd[k]: tokens that had committed at layer k's last forward

vars == <<net, spikes, call, pc, inputs, cur_ts, intra_inputs, layer, chan, closed,
          mgr, worker, output, overflow, ehist, sent, fwd>>

entryVars == <<pc, inputs, cur_ts, intra_inputs, layer, ehist>>
\* What no step of a solve changes.
const == <<net, spikes, call>>

NL == NumLayers(net)
Dim(k) == net.dims[k]
Tokens(k) == 1..Dim(k)
Managed == 2..NL

\* std::sync::mpsc channels are unbounded.  The model keeps at most ChanCap(k)
\* events in chan[k]: per external spike consumed so far, two events of the
\* entry layer, and two events of a manager for each event it receives.  A send
\* to a full channel is lost and sets overflow.  Only a run whose entry layer
\* loop never ends reaches the capacity: a run in which solve returns does not
\* (NoOverflowWhenDone).
ChanCap(k, consumed) == consumed * Pow2(k)

NoStep == [kind |-> "none", ts |-> 0, fired |-> FALSE]
Step(kind, ts, fired) == [kind |-> kind, ts |-> ts, fired |-> fired]

\* sender.send(ev) on chan[k], when the entry layer has consumed so many spikes.
SendAfter(consumed, k, ev) ==
    /\ chan' = IF Len(chan[k]) < ChanCap(k, consumed)
               THEN [chan EXCEPT ![k] = Append(@, ev)] ELSE chan
    /\ overflow' = (overflow \/ Len(chan[k]) >= ChanCap(k, consumed))
    /\ sent' = [sent EXCEPT ![k] = <<@[2], ev.ts>>]

Send(k, ev) == SendAfter(inputs - 1, k, ev)

NoSend == UNCHANGED <<chan, overflow, sent>>

\* LayerManager::new: nothing to deliver, no commit, no feedback in flight.
NewManager ==
    [cur |-> None, taken |-> {}, acc |-> [i \in NeuronIds |-> None],
     fb |-> None, eos |-> FALSE, prev |-> NoStep, last |-> NoStep]

\* LayerManager::new: the tokens it returns, exactly one per neuron.
NewTokens(n) == [j \in 1..n |-> j]

\* Every thread is handed the same token.
FirstToken(tokens, j) == tokens[1]

\* neurons.iter().zip(tokens.into_iter()): the token that goes with neuron j.
TokenOf(tokens, j) == tokens[j]

\* No thread has been spawned for the neuron.
NoWorker == [at |-> "none", vars |-> NewNeuron, ts |-> 0, w |-> 0, token |-> 0]

\* A spawned thread: it owns its token, solver_vars = neuron.into(), and is
\* about to call next.
NewWorker(token) ==
    [at |-> "next", vars |-> NewNeuron, ts |-> 0, w |-> 0, token |-> token]

\* No function is being called outside the solve.
NoCall == [fn |-> "none", arg |-> <<>>, ret |-> <<>>, done |-> FALSE]

\* The locals of solve before its first statement.
Fresh ==
    /\ inputs = 1
    /\ cur_ts = 0
    /\ intra_inputs = None
    /\ layer = [i \in NeuronIds |-> NewNeuron]
    /\ chan = [k \in LayerIds |-> <<>>]
    /\ closed = [k \in LayerIds |-> FALSE]
    /\ mgr = [k \in LayerIds |-> NewManager]
    /\ worker = [k \in LayerIds |-> [i \in NeuronIds |-> NoWorker]]
    /\ output = <<>>
    /\ overflow = FALSE
    /\ ehist = <<NoStep, NoStep>>
    /\ sent = [k \in LayerIds |-> <<0, 0>>]
    /\ fwd = [k \in LayerIds |-> IF k <= NumLayers(net) THEN 1..net.dims[k] ELSE {}]

\* The state at the entry of solve.
SolveEntry == pc = "spawn" /\ Fresh

Init ==
    /\ net \in Networks
    /\ spikes \in InputSeqs(net)
    /\ call = NoCall
    /\ SolveEntry

\* The loop over self.layers.iter().skip(1): a LayerManager for each layer
\* after the first, and a thread for each pair of a neuron and a token.
SpawnWorkers ==
    /\ pc = "spawn"
    /\ pc' = "loop"
    /\ worker' = [k \in LayerIds |-> [j \in NeuronIds |->
                     IF k \in Managed /\ j \in 1..Dim(k)
                     THEN NewWorker(TokenOf(NewTokens(Dim(k)), j))
                     ELSE NoWorker]]
    /\ UNCHANGED <<const, inputs, cur_ts, intra_inputs, layer, chan, closed, mgr,
                   output, overflow, ehist, sent, fwd>>

\* ------------------------------------------------- NN::solve, the entry layer
Fired(v) == v > FiringThreshold

\* cur_ts keeps the timestamp of the spike before.
StaleCurTs(ts) == cur_ts

\* cur_ts = ts
NextCurTs(ts) == ts

\* The vector sent for an external spike: output at neuron_id, 0.0 elsewhere.
OneHot(neuron_id, x, n) == [i \in 1..n |-> IF i = neuron_id THEN x ELSE 0]

\* What the feedback branch does with the activations `out` of the entry
\* layer's n neurons: if one is above 0.5, the vector is sent as it is and
\* multiplied by the intra-layer weights.
IntraOutcome(ts, out, intra, n) ==
    LET spiked == \E i \in 1..n : Fired(out[i])
    IN  [spiked |-> spiked,
         event |-> IF spiked THEN Some([ts |-> ts, arr |-> out]) ELSE None,
         multiplied |-> IF spiked THEN Some(out) ELSE None,
         intra_inputs |-> IF spiked THEN Some(Dot(out, intra, n, n)) ELSE None]

\* What the external branch does with the activation `out` of neuron
\* neuron_id: if it is above 0.5, the vector with it at neuron_id is sent
\* and row neuron_id of the intra-layer weights is scaled by it.
ExternalOutcome(ts, neuron_id, out, intra, n) ==
    LET spiked == Fired(out)
    IN  [spiked |-> spiked,
         event |-> IF spiked THEN Some([ts |-> ts, arr |-> OneHot(neuron_id, out, n)])
                   ELSE None,
         multiplied |-> IF spiked THEN Some(OneHot(neuron_id, out, n)) ELSE None,
         intra_inputs |-> IF spiked THEN Some(RowTimes(intra, neuron_id, out, n))
                          ELSE None]

\* An external spike is read whether or not feedback is pending.
ExternalAnytime == TRUE

\* The else branch of `if let Some(intra_arr) = intra_inputs.take()`: the input
\* iterator is touched only when no feedback is pending.
ExternalDue == ~IsSome(intra_inputs)

\* if let Some(intra_arr) = intra_inputs.take() { ... }
EntryIntra ==
    /\ pc = "loop"
    /\ IsSome(intra_inputs)
    /\ LET intra_arr == Unwrap(intra_inputs)
           n == Dim(1)
           out == [i \in 1..n |-> HandleSpikeOut(layer[i], intra_arr[i], cur_ts)]
           r == IntraOutcome(cur_ts, out, net.intra[1], n)
       IN  /\ layer' = [i \in NeuronIds |->
                          IF i <= n THEN HandleSpikeVars(layer[i], intra_arr[i], cur_ts)
                          ELSE layer[i]]
           /\ IF r.spiked THEN Send(1, Unwrap(r.event)) ELSE NoSend
           /\ intra_inputs' = r.intra_inputs
           /\ ehist' = <<ehist[2], Step("intra", cur_ts, r.spiked)>>
    /\ UNCHANGED <<const, pc, inputs, cur_ts, closed, mgr, worker, output, fwd>>

\* Every neuron of the entry layer is updated for an external spike.
WholeLayer(neuron_id, n) == 1..n

\* The neurons handle_spike is called on for an external spike:
\* layer[neuron_id] alone.
Addressed(neuron_id, n) == {neuron_id}

\* match inputs.next() { Some(Spike { neuron_id, ts }) => ... }
EntryExternal ==
    /\ pc = "loop"
    /\ ExternalDue
    /\ inputs <= Len(spikes)
    /\ spikes[inputs].neuron_id \in 1..Dim(1)
    /\ LET neuron_id == spikes[inputs].neuron_id
           ts == spikes[inputs].ts
           w == net.input_weights[neuron_id]
           out == HandleSpikeOut(layer[neuron_id], w, ts)
           n == Dim(1)
           r == ExternalOutcome(ts, neuron_id, out, net.intra[1], n)
       IN  /\ inputs' = inputs + 1
           /\ cur_ts' = NextCurTs(ts)
           /\ layer' = [i \in NeuronIds |->
                          IF i \in Addressed(neuron_id, n)
                          THEN HandleSpikeVars(layer[i], net.input_weights[i], ts)
                          ELSE layer[i]]
           /\ IF r.spiked THEN SendAfter(inputs, 1, Unwrap(r.event)) ELSE NoSend
           /\ intra_inputs' = r.intra_inputs
           /\ ehist' = <<ehist[2], Step("ext", ts, r.spiked)>>
    /\ UNCHANGED <<const, pc, closed, mgr, worker, output, fwd>>

\* layer[neuron_id] with neuron_id past the end of the entry layer: the index is
\* out of bounds and the calling thread panics, after cur_ts = ts.  Unwinding
\* drops the first sender.
EntryPanic ==
    /\ pc = "loop"
    /\ ExternalDue
    /\ inputs <= Len(spikes)
    /\ spikes[inputs].neuron_id \notin 1..Dim(1)
    /\ inputs' = inputs + 1
    /\ cur_ts' = spikes[inputs].ts
    /\ pc' = "panic"
    /\ closed' = [closed EXCEPT ![1] = TRUE]
    /\ UNCHANGED <<const, intra_inputs, layer, chan, mgr, worker, output, overflow,
                   ehist, sent, fwd>>

\* match inputs.next() { None => break }
EntryBreak ==
    /\ pc = "loop"
    /\ ExternalDue
    /\ inputs > Len(spikes)
    /\ pc' = "drop"
    /\ UNCHANGED <<const, inputs, cur_ts, intra_inputs, layer, chan, closed, mgr,
                   worker, output, overflow, ehist, sent, fwd>>

\* The first sender is kept alive.
KeepSender(c) == c

\* drop(sender): the first channel is closed.
DropSender(c) == [c EXCEPT ![1] = TRUE]

EntryDrop ==
    /\ pc = "drop"
    /\ closed' = DropSender(closed)
    /\ pc' = "drain"
    /\ UNCHANGED <<const, inputs, cur_ts, intra_inputs, layer, chan, mgr, worker,
                   output, overflow, ehist, sent, fwd>>

\* ------------------------------------------------ NN::solve, the collection
\* The newest event comes out first.
DrainLast(q) == [ev |-> q[Len(q)], rest |-> SubSeq(q, 1, Len(q) - 1)]

\* A spike for every entry of the event, fired or not.
ExpandUnfiltered(ev) == [i \in 1..Len(ev.arr) |-> [ts |-> ev.ts, neuron_id |-> i]]

\* receiver.into_iter(): events come out in the order they were sent.
DrainNext(q) == [ev |-> Head(q), rest |-> Tail(q)]

RECURSIVE ExpandFrom(_, _)
\* arr.into_iter().enumerate().filter(|(_, v)| *v > 0.5).map(|(i, _)| Spike { neuron_id: i, ts })
ExpandFrom(ev, i) ==
    IF i > Len(ev.arr) THEN <<>>
    ELSE (IF ev.arr[i] > FiringThreshold
          THEN <<[ts |-> ev.ts, neuron_id |-> i]>> ELSE <<>>)
         \o ExpandFrom(ev, i + 1)

Expand(ev) == ExpandFrom(ev, 1)

Collect ==
    /\ pc = "drain"
    /\ chan[NL] # <<>>
    /\ LET d == DrainNext(chan[NL])
       IN  /\ chan' = [chan EXCEPT ![NL] = d.rest]
           /\ output' = output \o Expand(d.ev)
    /\ UNCHANGED <<const, pc, inputs, cur_ts, intra_inputs, layer, closed, mgr,
                   worker, overflow, ehist, sent, fwd>>

\* The iterator ends when the channel is empty and its sender is gone.
CollectEnd ==
    /\ pc = "drain"
    /\ chan[NL] = <<>>
    /\ closed[NL]
    /\ pc' = "done"
    /\ UNCHANGED <<const, inputs, cur_ts, intra_inputs, layer, chan, closed, mgr,
                   worker, output, overflow, ehist, sent, fwd>>

\* ---------------------------------------------- NN::solve, layers 2 and up
\* The manager is handed the receiver of its own channel.
InputOfSelf(k) == k

\* replace(&mut receiver, layer_receiver): the manager of layer k receives what
\* layer k - 1 sends.
InputOf(k) == k - 1

\* Thread i of layer k has been spawned.
IsWorker(k, i) == k \in Managed /\ i \in Tokens(k) /\ worker[k][i].at # "none"

\* The neuron slot of the manager the thread's token gives access to.
Slot(k, i) == worker[k][i].token

\* The input the manager holds for the timestep being processed.
Input(ts, win, intra) == [ts |-> ts, win |-> win, intra |-> intra]

\* The worker leaves next(token) with Some((ts, weighted_input_val)).
Deliver(k, i, in) ==
    worker' = [worker EXCEPT ![k][i] =
                 [@ EXCEPT !.at = "has", !.ts = in.ts, !.w = in.win[Slot(k, i)]]]

\* next(token): the input of the current timestep is due to this token.
NextTake(k, i) ==
    /\ IsWorker(k, i)
    /\ worker[k][i].at = "next"
    /\ ~mgr[k].eos
    /\ IsSome(mgr[k].cur)
    /\ Slot(k, i) \notin mgr[k].taken
    /\ mgr' = [mgr EXCEPT ![k].taken = @ \cup {Slot(k, i)}]
    /\ Deliver(k, i, Unwrap(mgr[k].cur))
    /\ UNCHANGED <<const, entryVars, chan, closed, output, overflow, sent, fwd>>

\* next(token): the barrier is complete and a feedback pass is pending; it
\* becomes the input of the same timestep.
NextFeedback(k, i) ==
    /\ IsWorker(k, i)
    /\ worker[k][i].at = "next"
    /\ ~mgr[k].eos
    /\ ~IsSome(mgr[k].cur)
    /\ IsSome(mgr[k].fb)
    /\ LET in == Unwrap(mgr[k].fb)
       IN  /\ mgr' = [mgr EXCEPT ![k] =
                        [@ EXCEPT !.cur = Some(in), !.fb = None, !.taken = {Slot(k, i)},
                                  !.prev = mgr[k].last,
                                  !.last = Step("intra", in.ts, FALSE)]]
           /\ Deliver(k, i, in)
    /\ UNCHANGED <<const, entryVars, chan, closed, output, overflow, sent, fwd>>

\* next(token): the barrier is complete, no feedback is pending and the input
\* source holds an event; its weighted input becomes the current timestep.
NextReceive(k, i) ==
    /\ IsWorker(k, i)
    /\ worker[k][i].at = "next"
    /\ ~mgr[k].eos
    /\ ~IsSome(mgr[k].cur)
    /\ ~IsSome(mgr[k].fb)
    /\ chan[InputOf(k)] # <<>>
    /\ LET ev == Head(chan[InputOf(k)])
           in == Input(ev.ts,
                       Dot(ev.arr, net.synapses[k - 1], Dim(k - 1), Dim(k)),
                       FALSE)
       IN  /\ chan' = [chan EXCEPT ![InputOf(k)] = Tail(@)]
           /\ mgr' = [mgr EXCEPT ![k] =
                        [@ EXCEPT !.cur = Some(in), !.taken = {Slot(k, i)},
                                  !.prev = mgr[k].last,
                                  !.last = Step("ext", in.ts, FALSE)]]
           /\ Deliver(k, i, in)
    /\ UNCHANGED <<const, entryVars, closed, output, overflow, sent, fwd>>

\* The input source is closed, whatever is left in it or pending.
InputClosed(k) == closed[InputOf(k)]

\* The input source is exhausted and no feedback is pending.
Exhausted(k) ==
    /\ ~IsSome(mgr[k].cur)
    /\ ~IsSome(mgr[k].fb)
    /\ chan[InputOf(k)] = <<>>
    /\ closed[InputOf(k)]

\* next(token): end of stream.  The manager closes its output sink and the
\* worker's loop ends.
NextEnd(k, i) ==
    /\ IsWorker(k, i)
    /\ worker[k][i].at = "next"
    /\ mgr[k].eos \/ Exhausted(k)
    /\ mgr' = [mgr EXCEPT ![k].eos = TRUE]
    /\ closed' = [closed EXCEPT ![k] = TRUE]
    /\ worker' = [worker EXCEPT ![k][i].at = "exit"]
    /\ UNCHANGED <<const, entryVars, chan, output, overflow, sent, fwd>>

\* Some neuron slot of the timestep is filled.
BarrierAny(acc, k) == \E j \in Tokens(k) : IsSome(acc[j])

\* Every neuron slot of the timestep is filled.
BarrierComplete(acc, k) == \A j \in Tokens(k) : IsSome(acc[j])

\* The sparse fired-vector: the activation of the neurons that fired, 0.0 for
\* the others (and for a slot that is not filled).
FiredVec(acc, k) ==
    [j \in Tokens(k) |->
        IF IsSome(acc[j]) /\ Unwrap(acc[j]).spiked THEN Unwrap(acc[j]).output ELSE 0]

AnySpiked(acc, k) == \E j \in Tokens(k) : IsSome(acc[j]) /\ Unwrap(acc[j]).spiked

\* Feedback after every barrier in which a neuron fired, a feedback pass included.
FeedbackEveryBarrier(k, in, acc) ==
    IF AnySpiked(acc, k)
    THEN Some(Input(in.ts, Dot(FiredVec(acc, k), net.intra[k], Dim(k), Dim(k)), TRUE))
    ELSE None

\* The feedback a complete barrier schedules: one pass, and only for an
\* externally supplied timestep in which a neuron fired.
Feedback(k, in, acc) ==
    IF AnySpiked(acc, k) /\ ~in.intra
    THEN Some(Input(in.ts, Dot(FiredVec(acc, k), net.intra[k], Dim(k), Dim(k)), TRUE))
    ELSE None

\* The commit fills the first neuron slot that is still empty.
ArrivalSlot(k, i, acc) ==
    CHOOSE j \in Tokens(k) :
        ~IsSome(acc[j]) /\ \A x \in Tokens(k) : x < j => IsSome(acc[x])

\* mngr.commit(&token, spiked, output): the commit is made with the thread's
\* own token, whatever the other threads have committed.
CommitSlot(k, i, acc) == Slot(k, i)

\* Every thread of the layer works on the solver vars of its first neuron.
SharedVars(k, i) == 1

\* let mut solver_vars: M::SolverVars = neuron.into(): the solver vars thread i
\* of layer k works on are a local of its own closure.
VarsOf(k, i) == i

\* The loop body without the call of commit.
WorkerSkipCommit(k, i) ==
    /\ IsWorker(k, i)
    /\ worker[k][i].at = "has"
    /\ worker' = [worker EXCEPT ![k][i] =
                    [@ EXCEPT !.at = "next",
                              !.vars = HandleSpikeVars(@, worker[k][i].w, worker[k][i].ts)]]
    /\ UNCHANGED <<const, entryVars, chan, closed, mgr, output, overflow, sent, fwd>>

\* The body of the worker's loop:
\*   let output = M::handle_spike(neuron, &mut solver_vars, weighted_input_val, ts);
\*   let spiked = output > 0.5;
\*   mngr.commit(&token, spiked, output);
WorkerCommit(k, i) ==
    /\ IsWorker(k, i)
    /\ worker[k][i].at = "has"
    /\ LET me == worker[k][i]
           solver_vars == worker[k][VarsOf(k, i)].vars
           out == HandleSpikeOut(solver_vars, me.w, me.ts)
           spiked == Fired(out)
           acc == [mgr[k].acc EXCEPT ![CommitSlot(k, i, mgr[k].acc)] =
                                       Some([spiked |-> spiked, output |-> out])]
           in == Unwrap(mgr[k].cur)
       IN  /\ worker' = [worker EXCEPT
                           ![k][VarsOf(k, i)].vars =
                               HandleSpikeVars(solver_vars, me.w, me.ts),
                           ![k][i].at = "next"]
           /\ IF BarrierComplete(acc, k)
              THEN /\ Send(k, [ts |-> in.ts, arr |-> FiredVec(acc, k)])
                   /\ fwd' = [fwd EXCEPT ![k] = {j \in Tokens(k) : IsSome(acc[j])}]
                   /\ mgr' = [mgr EXCEPT ![k] =
                                [@ EXCEPT !.cur = None, !.taken = {},
                                          !.acc = [j \in NeuronIds |-> None],
                                          !.fb = Feedback(k, in, acc),
                                          !.last = Step(mgr[k].last.kind, in.ts, AnySpiked(acc, k))]]
              ELSE /\ NoSend
                   /\ UNCHANGED fwd
                   /\ mgr' = [mgr EXCEPT ![k].acc = acc]
    /\ UNCHANGED <<const, entryVars, closed, output>>

\* M::handle_spike fails: the thread ends without calling commit and its token
\* is dropped.  The manager detects the barrier that cannot complete: it closes
\* its output sink and returns end-of-stream to the other workers.
WorkerFail(k, i) ==
    /\ IsWorker(k, i)
    /\ worker[k][i].at = "has"
    /\ worker' = [worker EXCEPT ![k][i].at = "failed"]
    /\ mgr' = [mgr EXCEPT ![k].eos = TRUE]
    /\ closed' = [closed EXCEPT ![k] = TRUE]
    /\ UNCHANGED <<const, entryVars, chan, output, overflow, sent, fwd>>

\* ------------------------------------------- Solver::solve, the reference
\* The input weights of layer k as the matrix infer_spike_vec multiplies by:
\* the diagonal matrix of the entry layer's input weights, then the synapses.
InputMatrix(nt, k) ==
    IF k = 1
    THEN [i \in 1..nt.dims[1] |->
            [j \in 1..nt.dims[1] |-> IF i = j THEN nt.input_weights[i] ELSE 0]]
    ELSE nt.synapses[k - 1]

\* single_spike_to_vec: 1.0 at neuron_id, 0.0 elsewhere.
single_spike_to_vec(neuron_id, dim) ==
    [i \in 1..dim |-> IF i = neuron_id THEN Scale ELSE 0]

\* to_u128_vec: val_to_set where the value is greater than 0.0, u128::MAX elsewhere.
to_u128_vec(vec, val_to_set) ==
    [i \in DOMAIN vec |-> IF vec[i] > SeqThreshold THEN val_to_set ELSE U128_MAX]

\* init_neuron_vars: one SimulatedNeuron per neuron of the network.
init_neuron_vars(nt) ==
    [k \in 1..NumLayers(nt) |-> [i \in 1..nt.dims[k] |-> NewNeuron]]

\* One turn of the loop over the layers in infer_spike_vec: the inter-layer
\* input is applied to every neuron, then the intra-layer input; the outputs of
\* the second round are dropped.
InferLayer(nt, k, sim_layer, current_spike_vec, ts) ==
    LET n == nt.dims[k]
        m == IF k = 1 THEN nt.dims[1] ELSE nt.dims[k - 1]
        weighted_input_val == Dot(current_spike_vec, InputMatrix(nt, k), m, n)
        output_vec == [i \in 1..n |->
                         HandleSpikeOut(sim_layer[i], weighted_input_val[i], ts)]
        vars1 == [i \in 1..n |->
                    HandleSpikeVars(sim_layer[i], weighted_input_val[i], ts)]
        intra_layer_input_val == Dot(output_vec, nt.intra[k], n, n)
    IN  [sim |-> [i \in 1..n |->
                    HandleSpikeVars(vars1[i], intra_layer_input_val[i], ts)],
         output_vec |-> output_vec]

RECURSIVE InferFrom(_, _, _, _, _)
\* infer_spike_vec from layer k on: the simulated network afterwards and
\* out_spikes of the last layer.
InferFrom(nt, k, sim_network, current_spike_vec, ts) ==
    LET r == InferLayer(nt, k, sim_network[k], current_spike_vec, ts)
        sim == [sim_network EXCEPT ![k] = r.sim]
    IN  IF k = NumLayers(nt)
        THEN [sim |-> sim, out_spikes |-> to_u128_vec(r.output_vec, ts)]
        ELSE InferFrom(nt, k + 1, sim, r.output_vec, ts)

infer_spike_vec(nt, sim_network, spike_vec, ts) ==
    InferFrom(nt, 1, sim_network, spike_vec, ts)

RECURSIVE SolveFrom(_, _, _, _)
\* The loop over the input spikes of Solver::solve: nn_output.
SolveFrom(nt, input_spikes, i, sim_network) ==
    IF i > Len(input_spikes) THEN <<>>
    ELSE LET spike == input_spikes[i]
             res == infer_spike_vec(nt, sim_network,
                                    single_spike_to_vec(spike.neuron_id, nt.dims[1]),
                                    spike.ts)
         IN  <<res.out_spikes>> \o SolveFrom(nt, input_spikes, i + 1, res.sim)

RECURSIVE Timestamps(_, _, _)
\* output[neuron_id]: the entries of nn_output at neuron_id that are not u128::MAX.
Timestamps(nn_output, neuron_id, i) ==
    IF i > Len(nn_output) THEN <<>>
    ELSE (IF nn_output[i][neuron_id] # U128_MAX
          THEN <<nn_output[i][neuron_id]>> ELSE <<>>)
         \o Timestamps(nn_output, neuron_id, i + 1)

\* Solver::solve: for each neuron of the last layer, the timestamps it fired at.
SolverSolve(nt, input_spikes) ==
    LET nn_output == SolveFrom(nt, input_spikes, 1, init_neuron_vars(nt))
    IN  [neuron_id \in 1..nt.dims[NumLayers(nt)] |->
           Timestamps(nn_output, neuron_id, 1)]

\* ------------------------------------------------- Spike::create_terminal_vec
\* #[derive(PartialOrd, Ord)] on Spike { ts, neuron_id }: by ts, then neuron_id.
SpikeLe(a, b) == a.ts < b.ts \/ (a.ts = b.ts /\ a.neuron_id <= b.neuron_id)

RECURSIVE SortedInsert(_, _)
\* x put into the sorted sequence s, after the elements not greater than it.
SortedInsert(s, x) ==
    IF s = <<>> THEN <<x>>
    ELSE IF SpikeLe(s[1], x) THEN <<s[1]>> \o SortedInsert(Tail(s), x)
    ELSE <<x>> \o s

RECURSIVE Sort(_)
\* res.sort(): a stable ascending sort.
Sort(s) ==
    IF s = <<>> THEN <<>>
    ELSE SortedInsert(Sort(SubSeq(s, 1, Len(s) - 1)), s[Len(s)])

RECURSIVE PushAll(_)
\* for line in spikes { for spike in line { res.push(spike) } }
PushAll(lines) == IF lines = <<>> THEN <<>> ELSE Head(lines) \o PushAll(Tail(lines))

\* The lines pushed one after the other, left as they are.
create_terminal_vec_unsorted(lines) == PushAll(lines)

create_terminal_vec(lines) == Sort(PushAll(lines))

\* ------------------------------------------------------- LifNeuron::new_vec
\* LifNeuronConfig::new(1.0, 0.5, 2.0, 1.0) of test_solve_nn; tau is 1.0.
Cfg2 == [v_mem_current |-> 10, v_rest |-> 5, v_reset |-> 20,
         v_threshold |-> 10, tau |-> 10]

\* LifNeuron::new
LifNeuronNew(nc) ==
    [v_mem_current |-> nc.v_mem_current, v_mem_old |-> 0, v_rest |-> nc.v_rest,
     v_reset |-> nc.v_reset, v_threshold |-> nc.v_threshold, tau |-> nc.tau,
     ts_old |-> 0, ts_curr |-> 0]

\* What a call hands back: a value, or nothing because it panicked.
Returned(x) == [panic |-> FALSE, res |-> x]
Panicked == [panic |-> TRUE, res |-> <<>>]

\* As many neurons as there are configs to pair with 1..dim, whatever the length of ncs.
new_vec_lenient(ncs, dim) ==
    Returned([i \in 1..(IF Len(ncs) < dim THEN Len(ncs) ELSE dim) |->
                 LifNeuronNew(ncs[i])])

new_vec(ncs, dim) ==
    IF Len(ncs) = 1
    THEN Returned([i \in 1..dim |-> LifNeuronNew(ncs[1])])
    ELSE IF Len(ncs) # dim
         THEN Panicked
         ELSE Returned([i \in 1..dim |-> LifNeuronNew(ncs[i])])

\* ------------------------------------------------- calls outside of a solve
\* The lists of spikes handed to create_terminal_vec as one line: any order of
\* timestamps, repetitions included.
SpikeLines == UNION {AnySeqs(n, NeuronIds) : n \in 0..MaxInputs}

\* Vec<Vec<Spike>>: no line, one line, or one line for each of two neurons.
LineLists ==
    {<<>>} \cup {<<a>> : a \in SpikeLines} \cup {<<a, b>> : a, b \in SpikeLines}

RECURSIVE ConfigSeqs(_)
ConfigSeqs(n) ==
    IF n = 0 THEN {<<>>}
    ELSE {Append(s, nc) : s \in ConfigSeqs(n - 1), nc \in {Cfg, Cfg2}}

\* The arguments of new_vec: up to MaxInputs + 1 configs and neurons.
NewVecArgs ==
    {<<ncs, dim>> : ncs \in UNION {ConfigSeqs(n) : n \in 0..(MaxInputs + 1)},
                    dim \in 0..(MaxInputs + 1)}

\* The activations a model may hand back, 0.0 to 1.0.
Activations == 0..Scale

Call(fn, arg) == [fn |-> fn, arg |-> arg, ret |-> <<>>, done |-> FALSE]

Calls ==
    {Call("create_terminal_vec", a) : a \in LineLists}
    \cup {Call("new_vec", a) : a \in NewVecArgs}
    \cup {Call("fired", a) : a \in Activations}
    \cup {Call("Solver::solve", a) : a \in InputSeqs(PassthroughNet)}

\* What a call leaves alone.
solveVars == <<net, spikes, pc, inputs, cur_ts, intra_inputs, layer, chan, closed,
               mgr, worker, output, overflow, ehist, sent, fwd>>

Return(x) ==
    /\ call' = [call EXCEPT !.ret = x, !.done = TRUE]
    /\ UNCHANGED solveVars

CallCreateTerminalVec ==
    /\ call.fn = "create_terminal_vec"
    /\ ~call.done
    /\ Return(create_terminal_vec(call.arg))

CallNewVec ==
    /\ call.fn = "new_vec"
    /\ ~call.done
    /\ Return(new_vec(call.arg[1], call.arg[2]))

\* The four places that decide whether a neuron fired, on one activation: the
\* worker loop, the entry layer, the output expansion of NN::solve and the
\* output conversion of Solver::infer_spike_vec.
CallFiringRules ==
    /\ call.fn = "fired"
    /\ ~call.done
    /\ Return([worker |-> Fired(call.arg),
               entry |-> Fired(call.arg),
               expand |-> Expand([ts |-> 1, arr |-> <<call.arg>>]) # <<>>,
               sequential |-> to_u128_vec(<<call.arg>>, 1)[1] # U128_MAX])

\* Solver::new(spikes, nn).solve() on the passthrough network.
CallSolverSolve ==
    /\ call.fn = "Solver::solve"
    /\ ~call.done
    /\ Return(SolverSolve(PassthroughNet, call.arg))

\* Two updates of a fresh neuron, at time call.arg[1] and then at time
\* call.arg[2], each with the weighted input call.arg[3]: the neuron after the
\* first, the delta_t the second computes, and the neuron after the second.
UpdateCalls ==
    {Call("handle_spike", <<ts1, ts2, w>>) :
        ts1 \in 1..MaxInputs, ts2 \in 1..(MaxInputs + 1), w \in {0, 12}}

CallHandleSpike ==
    /\ call.fn = "handle_spike"
    /\ ~call.done
    /\ LET first == HandleSpikeVars(NewNeuron, call.arg[3], call.arg[1])
       IN  Return([first |-> first,
                   delta_t |-> DeltaT(first),
                   second |-> HandleSpikeVars(first, call.arg[3], call.arg[2])])

\* The two branches of the entry layer's loop body from the call of handle_spike
\* on, for the activations a Model can hand back: on a layer of two neurons with
\* the intra-layer weights Inhib2, at time 1; the external spike is addressed to
\* the first neuron.
OutcomeCalls ==
    {Call("entry outcome", <<"intra", <<a, b>>>>) : a \in Activations, b \in Activations}
    \cup {Call("entry outcome", <<"external", <<a>>>>) : a \in Activations}

CallEntryOutcome ==
    /\ call.fn = "entry outcome"
    /\ ~call.done
    /\ Return(IF call.arg[1] = "intra"
              THEN IntraOutcome(1, call.arg[2], Inhib2, 2)
              ELSE ExternalOutcome(1, 1, call.arg[2][1], Inhib2, 2))

\* ---------------------------------- Solver::solve, one handle_spike at a time
\* The same code as SolverSolve above, as the steps of a call
\* Call("Solver::steps", <<nt, input_spikes>>): call.ret holds the locals of
\* solve and of infer_spike_vec. Three fields are history: acts (the output_vec
\* of the last layer, per input spike), upd (how often each neuron of the
\* current layer was updated in this turn of the loop over the layers: with the
\* inter-layer input, with the intra-layer input) and turn (the turn that ended
\* last).
SeqNet == call.arg[1]

SeqSpikes == call.arg[2]

ZeroUpd(n) == [j \in 1..n |-> <<0, 0>>]

NoTurn == [i |-> 0, k |-> 0, upd |-> <<>>]

\* The locals at the call of solve.
SeqStart ==
    [pass |-> "begin", i |-> 1, k |-> 0, j |-> 0,
     sim_network |-> <<>>, current_spike_vec |-> <<>>, output_vec |-> <<>>,
     out_spikes |-> <<>>, nn_output |-> <<>>, output |-> <<>>,
     acts |-> <<>>, upd |-> <<>>, turn |-> NoTurn]

\* The input of the calls: the well-formed inputs and, for each, the input
\* whose last spike is at the largest timestamp.
AtLargestTs(s) == [s EXCEPT ![Len(s)].ts = U128_MAX]

StepInputs(nt) ==
    InputSeqs(nt) \cup {AtLargestTs(s) : s \in InputSeqs(nt) \ {<<>>}}

StepCalls ==
    UNION {{[fn |-> "Solver::steps", arg |-> <<nt, s>>, ret |-> SeqStart,
             done |-> FALSE] : s \in StepInputs(nt)} : nt \in Networks}

SeqAt(pass) == call.fn = "Solver::steps" /\ ~call.done /\ call.ret.pass = pass

\* let mut sim_network = Self::init_neuron_vars(..); let mut nn_output = Vec::new()
SeqBegin ==
    /\ SeqAt("begin")
    /\ call' = [call EXCEPT !.ret.sim_network = init_neuron_vars(SeqNet),
                            !.ret.pass = "spike"]
    /\ UNCHANGED solveVars

\* for spike in self.input_spikes.iter(): spike_array, and the entry into
\* infer_spike_vec up to the first layer.
SeqNextSpike ==
    /\ SeqAt("spike")
    /\ call.ret.i <= Len(SeqSpikes)
    /\ call' = [call EXCEPT
                  !.ret.current_spike_vec =
                      single_spike_to_vec(SeqSpikes[call.ret.i].neuron_id,
                                          SeqNet.dims[1]),
                  !.ret.output_vec = <<>>,
                  !.ret.out_spikes = <<>>,
                  !.ret.k = 1, !.ret.j = 1, !.ret.pass = "inter",
                  !.ret.upd = ZeroUpd(SeqNet.dims[1])]
    /\ UNCHANGED solveVars

\* The end of a turn of the loop over the layers: the next layer, or the return
\* of infer_spike_vec and nn_output.push(res).
SeqAfterIntra(st, nt) ==
    LET ended == [i |-> st.i, k |-> st.k, upd |-> st.upd]
    IN  IF st.k < NumLayers(nt)
        THEN [st EXCEPT !.k = @ + 1, !.j = 1, !.pass = "inter",
                        !.upd = ZeroUpd(nt.dims[st.k + 1]), !.turn = ended]
        ELSE [st EXCEPT !.nn_output = Append(@, st.out_spikes),
                        !.acts = Append(@, st.current_spike_vec),
                        !.i = @ + 1, !.pass = "spike", !.turn = ended]

\* A loop over the layers that leaves the intra-layer round out.
SeqWithoutIntra(st, nt, ts) ==
    SeqAfterIntra([st EXCEPT !.current_spike_vec = st.output_vec,
                             !.out_spikes = to_u128_vec(st.output_vec, ts),
                             !.output_vec = <<>>], nt)

\* Between the two rounds: current_spike_vec, out_spikes, output_vec.clear().
SeqAfterInter(st, nt, ts) ==
    [st EXCEPT !.current_spike_vec = st.output_vec,
               !.out_spikes = to_u128_vec(st.output_vec, ts),
               !.output_vec = <<>>,
               !.j = 1, !.pass = "intra"]

\* One turn of the first loop over the neurons of layer k.
SeqInter ==
    /\ SeqAt("inter")
    /\ LET st == call.ret
           nt == SeqNet
           k == st.k
           j == st.j
           ts == SeqSpikes[st.i].ts
           n == nt.dims[k]
           m == IF k = 1 THEN nt.dims[1] ELSE nt.dims[k - 1]
           weighted_input_val == Dot(st.current_spike_vec, InputMatrix(nt, k), m, n)
           res == HandleSpikeOut(st.sim_network[k][j], weighted_input_val[j], ts)
           st1 == [st EXCEPT
                     !.sim_network[k][j] =
                         HandleSpikeVars(st.sim_network[k][j], weighted_input_val[j], ts),
                     !.output_vec = Append(@, res),
                     !.upd[j][1] = @ + 1]
       IN  call' = [call EXCEPT !.ret = IF j < n THEN [st1 EXCEPT !.j = j + 1]
                                         ELSE SeqAfterInter(st1, nt, ts)]
    /\ UNCHANGED solveVars

\* One turn of the second loop over the neurons of layer k; the result of
\* handle_spike is dropped.
SeqIntra ==
    /\ SeqAt("intra")
    /\ LET st == call.ret
           nt == SeqNet
           k == st.k
           j == st.j
           ts == SeqSpikes[st.i].ts
           n == nt.dims[k]
           intra_layer_input_val == Dot(st.current_spike_vec, nt.intra[k], n, n)
           st1 == [st EXCEPT
                     !.sim_network[k][j] =
                         HandleSpikeVars(st.sim_network[k][j], intra_layer_input_val[j], ts),
                     !.upd[j][2] = @ + 1]
       IN  call' = [call EXCEPT !.ret = IF j < n THEN [st1 EXCEPT !.j = j + 1]
                                         ELSE SeqAfterIntra(st1, nt)]
    /\ UNCHANGED solveVars

\* After the loop over the input spikes: output, and the return of solve.
SeqReturn ==
    /\ SeqAt("spike")
    /\ call.ret.i > Len(SeqSpikes)
    /\ call' = [call EXCEPT
                  !.ret.output =
                      [neuron_id \in 1..SeqNet.dims[NumLayers(SeqNet)] |->
                         Timestamps(call.ret.nn_output, neuron_id, 1)],
                  !.ret.pass = "returned",
                  !.done = TRUE]
    /\ UNCHANGED solveVars

SeqNext == SeqBegin \/ SeqNextSpike \/ SeqInter \/ SeqIntra \/ SeqReturn

\* The steps return what SolverSolve computes.
StepsAgreeWithSolverSolve ==
    (call.fn = "Solver::steps" /\ call.done)
        => call.ret.output = SolverSolve(SeqNet, SeqSpikes)

\* ------------------------------------------------------------ specification
Entry == SpawnWorkers \/ EntryIntra \/ EntryExternal \/ EntryBreak \/ EntryDrop

Collector == Collect \/ CollectEnd

WorkerNext(k, i) ==
    NextTake(k, i) \/ NextFeedback(k, i) \/ NextReceive(k, i) \/ NextEnd(k, i)

Next ==
    \/ SpawnWorkers
    \/ EntryIntra
    \/ EntryExternal
    \/ EntryBreak
    \/ EntryDrop
    \/ Collect
    \/ CollectEnd
    \/ \E k \in LayerIds, i \in NeuronIds : NextTake(k, i)
    \/ \E k \in LayerIds, i \in NeuronIds : NextFeedback(k, i)
    \/ \E k \in LayerIds, i \in NeuronIds : NextReceive(k, i)
    \/ \E k \in LayerIds, i \in NeuronIds : NextEnd(k, i)
    \/ \E k \in LayerIds, i \in NeuronIds : WorkerCommit(k, i)

Spec == Init /\ [][Next]_vars

\* Every thread that can take a step eventually takes one.
Fairness ==
    /\ WF_vars(Entry)
    /\ WF_vars(Collector)
    /\ \A k \in LayerIds, i \in NeuronIds :
          WF_vars(WorkerNext(k, i)) /\ WF_vars(WorkerCommit(k, i))

FairSpec == Spec /\ Fairness

\* solve called with any Vec<Spike>, on a model whose handle_spike may fail.
FaultInit ==
    /\ net \in Networks
    /\ spikes \in AnyInputs(net)
    /\ call = NoCall
    /\ SolveEntry

FaultNext ==
    \/ Next
    \/ EntryPanic
    \/ \E k \in LayerIds, i \in NeuronIds : WorkerFail(k, i)

FaultSpec == FaultInit /\ [][FaultNext]_vars

\* The crate's functions called on their own.
CallInit ==
    /\ net = PassthroughNet
    /\ spikes = <<>>
    /\ call \in Calls \cup UpdateCalls \cup OutcomeCalls \cup StepCalls
    /\ pc = "idle"
    /\ Fresh

CallNext ==
    \/ CallCreateTerminalVec
    \/ CallNewVec
    \/ CallFiringRules
    \/ CallSolverSolve
    \/ CallHandleSpike
    \/ CallEntryOutcome
    \/ SeqNext

CallSpec == CallInit /\ [][CallNext]_vars

\* A run in which solve returns lost no event to the model's channel capacity.
NoOverflowWhenDone == pc = "done" => ~overflow

\* ------------------------------------------------------------------- claims
\* At most one external spike per timestamp.
OneSpikePerTs(s) == \A i, j \in 1..Len(s) : i # j => s[i].ts # s[j].ts

\* The (timestamp, neuron_id) pairs NN::solve returned.
ConcurrentOutput == {<<output[i].ts, output[i].neuron_id>> : i \in 1..Len(output)}

\* The per-neuron timestamp lists of Solver::solve, flattened to pairs.
SequentialOutput ==
    LET r == SolverSolve(net, spikes)
    IN  UNION {{<<r[n][j], n>> : j \in 1..Len(r[n])} : n \in DOMAIN r}

\* C1: for every network and every timestamp-ordered input with at most one
\* external spike per timestamp, the set of output spikes NN::solve returns
\* equals the set Solver::solve returns.
C1_SolversAgree ==
    (pc = "done" /\ OneSpikePerTs(spikes)) => ConcurrentOutput = SequentialOutput

\* C2: in every non-entry layer an output event is forwarded only after every
\* neuron worker of the layer has committed for that timestep: whatever the
\* interleaving, the tokens committed at a forward are all the layer's tokens.
C2_BarrierAllOrNothing == \A k \in Managed : fwd[k] = Tokens(k)

\* A two-neuron layer has forwarded an event and is in the middle of its next
\* barrier: the second worker has committed, the first has not.
C2_Witness ==
    \E k \in Managed :
        /\ Dim(k) = 2
        /\ sent[k][2] > 0
        /\ IsSome(mgr[k].acc[2])
        /\ ~IsSome(mgr[k].acc[1])

\* C3: for every network and every finite timestamp-ordered input with no
\* simultaneous spikes, NN::solve terminates.
C3_Terminates == OneSpikePerTs(spikes) => <>(pc = "done")

\* C4: the spikes NN::solve returns are non-decreasing in timestamp (the input
\* is sorted by timestamp).
C4_OutputSorted == IsSorted(output)

\* solve has returned spikes of two different timestamps.
C4_Witness ==
    /\ pc = "done"
    /\ Len(output) >= 2
    /\ output[1].ts < output[Len(output)].ts

\* C5: on every channel between two pipeline stages the timestamps of the
\* events are non-decreasing in send order.
C5_ChannelOrder == \A k \in LayerIds : sent[k][1] <= sent[k][2]

\* Every channel of a pipeline with managers has carried events of two
\* different timestamps.
C5_Witness ==
    /\ NL >= 2
    /\ \A k \in 1..NL : 0 < sent[k][1] /\ sent[k][1] < sent[k][2]

\* C6: for any network, NN::solve called with an empty input terminates and
\* returns an empty output.
C6_EmptyInput == (spikes = <<>>) => ([](output = <<>>) /\ <>(pc = "done"))

\* solve has returned from an empty input on a network with two managers.
C6_Witness == spikes = <<>> /\ pc = "done" /\ NL = 3 /\ output = <<>>

\* C7: once the entry layer drops the first sender, every manager eventually
\* closes its output channel, in pipeline order, and the drain loop ends.
C7_CascadingShutdown ==
    /\ [](\A k \in LayerIds : (k > 1 /\ closed[k]) => closed[k - 1])
    /\ [](closed[1] => <>(pc = "done" /\ \A k \in 1..NL : closed[k]))

\* The shutdown is half way through a pipeline of three stages.
C7_Witness == NL = 3 /\ closed[1] /\ closed[2] /\ ~closed[3]

\* A worker waits in next(token): nothing is due to its token.
Blocked(k, i) ==
    /\ IsWorker(k, i)
    /\ worker[k][i].at = "next"
    /\ ~mgr[k].eos
    /\ \/ IsSome(mgr[k].cur) /\ Slot(k, i) \in mgr[k].taken
       \/ ~IsSome(mgr[k].cur) /\ ~IsSome(mgr[k].fb) /\ chan[InputOf(k)] = <<>>
                              /\ ~closed[InputOf(k)]

\* The worker is inside next(token).
InNext(k, i) == IsWorker(k, i) /\ worker[k][i].at = "next"

\* C8: under fair scheduling every worker in next(token) is eventually given a
\* weighted input or end-of-stream: no worker stays in next for ever.  (A
\* worker leaves next with an input, at "has", or with end-of-stream, at
\* "exit"; "always, in next implies eventually not in next" is []<> of not in
\* next.)
C8_NoWorkerBlockedForever ==
    \A k \in LayerIds, i \in NeuronIds : []<>(~InNext(k, i))

\* A worker that has been served before waits for its layer's barrier.
C8_Witness ==
    \E k \in LayerIds, i \in NeuronIds :
        Blocked(k, i) /\ IsSome(mgr[k].cur) /\ mgr[k].prev.kind # "none"

\* The rule of the single feedback pass on the last two steps p, l of a layer:
\* a feedback step follows the external step of the same timestamp in which a
\* neuron fired, and an external step in which a neuron fired is not followed
\* by another external step.
OnePass(p, l) ==
    /\ l.kind = "intra" => (p.kind = "ext" /\ p.fired /\ p.ts = l.ts)
    /\ (l.kind = "ext" /\ p.kind = "ext") => ~p.fired

\* C9: in a Layer Manager, when a neuron fired in the barrier of an externally
\* supplied timestep, exactly one feedback input of the same timestamp is
\* delivered before any input of the next external timestep; neurons that fire
\* in the feedback pass trigger no further feedback pass.
C9_ManagerSingleFeedback ==
    \A k \in Managed :
        /\ OnePass(mgr[k].prev, mgr[k].last)
        /\ (mgr[k].last.kind = "intra" /\ ~IsSome(mgr[k].cur)) => ~IsSome(mgr[k].fb)
        /\ (mgr[k].eos /\ mgr[k].last.kind = "ext") => ~mgr[k].last.fired

\* A manager has delivered the next external timestep after a feedback pass
\* in which a neuron fired.
C9_Witness ==
    \E k \in Managed :
        /\ mgr[k].last.kind = "ext"
        /\ mgr[k].prev.kind = "intra"
        /\ mgr[k].prev.fired

\* C10: in the entry layer each external spike that makes its neuron fire is
\* followed by exactly one feedback pass before the next external spike is
\* consumed; a firing during that pass schedules no further pass.
C10_EntrySingleFeedback ==
    /\ OnePass(ehist[1], ehist[2])
    /\ ehist[2].kind = "intra" => ~IsSome(intra_inputs)
    /\ (pc # "loop" /\ ehist[2].kind = "ext") => ~ehist[2].fired

\* The input is not sorted by timestamp, or addresses a neuron the entry layer
\* does not have.
Malformed(nt, s) ==
    \/ ~IsSorted(s)
    \/ \E i \in 1..Len(s) : s[i].neuron_id \notin 1..nt.dims[1]

\* No thread has been spawned and no neuron of the entry layer has been updated.
Untouched ==
    /\ \A k \in LayerIds, i \in NeuronIds : worker[k][i] = NoWorker
    /\ layer = [i \in NeuronIds |-> NewNeuron]

\* C11: NN::solve called with an input that is not sorted by timestamp, or that
\* holds a neuron_id outside the entry layer, is rejected before any worker
\* thread is spawned and before any neuron state is updated: for such an input
\* no thread is ever spawned and no neuron is ever updated.
C11_MalformedInputRejected == Malformed(net, spikes) => Untouched

\* A worker stopped without committing for its timestep.
AnyFailed == \E k \in LayerIds, i \in NeuronIds : worker[k][i].at = "failed"

\* C12: when a worker fails while computing a neuron's update, the solve ends
\* in a terminal error state: it does not return normally.
C12_WorkerFailureIsTerminal == AnyFailed => pc # "done"

\* The threads spawned for layer k.
Workers(k) == {i \in NeuronIds : worker[k][i].at # "none"}

\* C13: for every layer after the first, NN::solve creates exactly one worker
\* per neuron and gives each worker a token of its own: workers, tokens and
\* neuron slots of a layer correspond one to one, and a worker that holds the
\* input of a timestep is the only one that took it from its slot and the slot
\* has no commit yet.  The entry layer has no worker.
C13_OneWorkerPerNeuron ==
    pc # "spawn" =>
        \A k \in LayerIds :
            /\ Workers(k) = (IF k \in Managed THEN Tokens(k) ELSE {})
            /\ {worker[k][i].token : i \in Workers(k)} =
                   (IF k \in Managed THEN Tokens(k) ELSE {})
            /\ \A i, j \in Workers(k) :
                   i # j => worker[k][i].token # worker[k][j].token
            /\ \A i \in Workers(k) :
                   worker[k][i].at = "has" =>
                       /\ Slot(k, i) \in mgr[k].taken
                       /\ ~IsSome(mgr[k].acc[Slot(k, i)])

\* Both workers of a two-neuron layer hold the input of the same timestep.
C13_Witness ==
    \E k \in Managed :
        /\ Dim(k) = 2
        /\ worker[k][1].at = "has"
        /\ worker[k][2].at = "has"

\* C14: the solver vars of a neuron change only in a step of the thread that
\* owns them: those of a worker in that worker's own loop body (from holding an
\* input to its next call of next), with every other thread's vars and the
\* entry layer's left alone; those of the entry layer only in a step of the
\* calling thread's loop, with every worker left alone.
C14_NeuronStateOwned ==
    [][/\ \A k \in LayerIds, i \in NeuronIds :
             worker'[k][i].vars # worker[k][i].vars =>
                 /\ worker[k][i].at = "has"
                 /\ worker'[k][i].at = "next"
                 /\ layer' = layer
                 /\ \A l \in LayerIds, j \in NeuronIds :
                        <<l, j>> # <<k, i>> => worker'[l][j] = worker[l][j]
       /\ layer' # layer => (pc = "loop" /\ worker' = worker)]_vars

\* Both workers of a two-neuron layer and a neuron of the entry layer have
\* updated their solver vars.
C14_Witness ==
    \E k \in Managed :
        /\ Dim(k) = 2
        /\ worker[k][1].vars # NewNeuron
        /\ worker[k][2].vars # NewNeuron
        /\ \E i \in 1..Dim(1) : layer[i] # NewNeuron

\* How many times x occurs in the sequence s.
Count(s, x) == Cardinality({i \in 1..Len(s) : s[i] = x})

\* How many times x occurs in the lines.
CountIn(lines, x) ==
    SumTo([l \in 1..Len(lines) |-> Count(lines[l], x)], Len(lines))

\* Every spike a line of the model can hold.
SpikeUniverse == {Spike(ts, neuron_id) : ts \in 1..MaxInputs, neuron_id \in NeuronIds}

\* C15: Spike::create_terminal_vec applied to any list of spike lists (empty
\* lists and the empty outer list included) returns a sequence that is sorted
\* ascending by timestamp and holds every spike exactly as often as the lines
\* together hold it: a permutation of their concatenation.
C15_CreateTerminalVec ==
    (call.fn = "create_terminal_vec" /\ call.done) =>
        /\ IsSorted(call.ret)
        /\ \A x \in SpikeUniverse : Count(call.ret, x) = CountIn(call.arg, x)
        /\ \A i \in 1..Len(call.ret) : call.ret[i] \in SpikeUniverse

\* create_terminal_vec has merged two full lines that are not sorted and have a
\* spike in common.
C15_Witness ==
    /\ call.fn = "create_terminal_vec"
    /\ call.done
    /\ Len(call.arg) = 2
    /\ ~IsSorted(call.arg[1])
    /\ ~IsSorted(call.arg[2])
    /\ \E x \in SpikeUniverse : Count(call.arg[1], x) > 0 /\ Count(call.arg[2], x) > 0
    /\ Len(call.ret) = 2 * MaxInputs

RECURSIVE AddressedTo(_, _)
\* The timestamps of the spikes of s addressed to neuron n, in the order of s.
AddressedTo(s, n) ==
    IF s = <<>> THEN <<>>
    ELSE (IF Head(s).neuron_id = n THEN <<Head(s).ts>> ELSE <<>>)
         \o AddressedTo(Tail(s), n)

\* C17: on the one-layer network with every input weight 1.0, no intra-layer
\* weight and the fixture config, Solver::solve returns for each output neuron
\* the timestamps of the input spikes addressed to it, in input order.
C17_Passthrough ==
    (call.fn = "Solver::solve" /\ call.done) =>
        call.ret = [n \in 1..PassthroughNet.dims[1] |-> AddressedTo(call.arg, n)]

FiringRule(activation) == activation > 5

\* C19: every place that decides whether a neuron fired applies the same
\* rule, activation > 0.5: the worker loop, the entry layer, the output
\* expansion of NN::solve and the output conversion of the sequential solver.
C19_OneFiringRule ==
    (call.fn = "fired" /\ call.done) =>
        /\ call.ret.worker = FiringRule(call.arg)
        /\ call.ret.entry = FiringRule(call.arg)
        /\ call.ret.expand = FiringRule(call.arg)
        /\ call.ret.sequential = FiringRule(call.arg)

RECURSIVE Ascending(_)
\* The numbers of the set S in ascending order.
Ascending(S) ==
    IF S = {} THEN <<>>
    ELSE LET m == CHOOSE x \in S : \A y \in S : x <= y
         IN  <<m>> \o Ascending(S \ {m})

\* The spikes of an event: one for each entry above the firing threshold, in
\* ascending neuron index.
FiredEntries(ev) ==
    LET ids == Ascending({i \in 1..Len(ev.arr) : FiringRule(ev.arr[i])})
    IN  [j \in 1..Len(ids) |-> [ts |-> ev.ts, neuron_id |-> ids[j]]]

\* C20: the spikes NN::solve returns are exactly the pairs (ts, i) of an event
\* of the last stage with timestamp ts whose entry i exceeds the firing
\* threshold, in event order and in ascending neuron index within an event.
\* The output starts empty; it changes, and an event leaves the last channel,
\* only by the oldest event being taken and its fired entries being appended;
\* and solve returns only when no event is left.
C20_OutputIsFiredEntries ==
    /\ output = <<>>
    /\ [][(output' # output \/ Len(chan'[NL]) < Len(chan[NL])) =>
             /\ pc = "drain"
             /\ chan[NL] # <<>>
             /\ chan'[NL] = Tail(chan[NL])
             /\ output' = output \o FiredEntries(Head(chan[NL]))]_vars
    /\ [](pc = "done" => chan[NL] = <<>>)

\* solve has returned two spikes of one timestamp and, for another timestamp,
\* the spike of one neuron of a two-neuron last layer only.
C20_Witness ==
    /\ pc = "done"
    /\ Dim(NL) = 2
    /\ \E i \in 1..(Len(output) - 1) :
           /\ output[i].ts = output[i + 1].ts
           /\ output[i].neuron_id < output[i + 1].neuron_id
    /\ \E i \in 1..Len(output) :
           \A j \in 1..Len(output) : j # i => output[j].ts # output[i].ts

\* ------------------------------------------------------------------- C21
SeqRunning == call.fn = "Solver::steps" /\ call.ret.pass # "begin"

\* The update counts of the n neurons in a round at neuron j: the neurons
\* before j were updated in this round, the others not yet.
RoundAt(upd, round, j, n) ==
    \A x \in 1..n : upd[x][round] = IF x < j THEN 1 ELSE 0

\* A turn of the loop over the layers that ended updated each neuron of its
\* layer once with the inter-layer input and once with the intra-layer input.
TurnComplete(turn, nt) ==
    /\ DOMAIN turn.upd = 1..nt.dims[turn.k]
    /\ \A x \in DOMAIN turn.upd : turn.upd[x] = <<1, 1>>

\* C21: the sequential solver takes the input spikes one at a time in the given
\* order, and for each input spike and each layer it updates every neuron of the
\* layer exactly twice, once with the inter-layer input and then once with the
\* intra-layer input, before it moves to the next layer: in the first round no
\* neuron has had its second update, the second round starts when every neuron
\* has had its first, a turn ends with one update of each kind for every
\* neuron, and the turns end in the order of the spikes and of the layers.
C21_TwoUpdatesPerLayer ==
    /\ [](SeqRunning =>
            LET st == call.ret
                n == SeqNet.dims[st.k]
            IN  /\ st.pass = "inter" =>
                      RoundAt(st.upd, 1, st.j, n) /\ RoundAt(st.upd, 2, 1, n)
                /\ st.pass = "intra" =>
                      RoundAt(st.upd, 1, n + 1, n) /\ RoundAt(st.upd, 2, st.j, n)
                /\ st.turn # NoTurn => TurnComplete(st.turn, SeqNet))
    /\ [][(SeqRunning /\ call'.ret.turn # call.ret.turn) =>
            LET st == call.ret
                last == NumLayers(SeqNet)
            IN  /\ call'.ret.turn.i = st.i
                /\ call'.ret.turn.k = st.k
                /\ \/ st.k < last /\ call'.ret.i = st.i /\ call'.ret.k = st.k + 1
                   \/ st.k = last /\ call'.ret.i = st.i + 1
                /\ st.turn # NoTurn =>
                      \/ st.turn.i = st.i /\ st.turn.k + 1 = st.k
                      \/ st.turn.i + 1 = st.i /\ st.turn.k = last /\ st.k = 1]_vars

\* The second spike has gone through a second layer of two neurons of which at
\* least one fired, and solve has returned.
C21_Witness ==
    /\ call.fn = "Solver::steps"
    /\ call.done
    /\ NumLayers(SeqNet) >= 2
    /\ Len(call.ret.acts) = 2
    /\ call.ret.turn.i = 2
    /\ Len(call.ret.turn.upd) = 2
    /\ \E x \in 1..2 : call.ret.acts[2][x] > 0

\* ------------------------------------------------------------------- C22
RECURSIVE FiredAt(_, _, _, _)
\* The timestamps of the input spikes from the i-th on for which neuron n of
\* the last layer fired, in the order of the input.
FiredAt(input_spikes, acts, n, i) ==
    IF i > Len(input_spikes) THEN <<>>
    ELSE (IF FiringRule(acts[i][n]) THEN <<input_spikes[i].ts>> ELSE <<>>)
         \o FiredAt(input_spikes, acts, n, i + 1)

NonDecreasing(s) == \A i \in 1..(Len(s) - 1) : s[i] <= s[i + 1]

\* The solve of the sequential solver that has returned kept the claim.
ReturnedListsAreFirings(input_spikes) ==
    LET nt == SeqNet
        out == call.ret.output
    IN  /\ DOMAIN out = 1..nt.dims[NumLayers(nt)]
        /\ \A n \in DOMAIN out :
              /\ out[n] = FiredAt(input_spikes, call.ret.acts, n, 1)
              /\ IsSorted(input_spikes) => NonDecreasing(out[n])

\* C22: Solver::solve returns one list per neuron of the last layer; each list
\* holds exactly the timestamps of the input spikes for which that neuron
\* fired, in non-decreasing order when the input is ordered by timestamp.
C22_SolverOutput ==
    (call.fn = "Solver::steps" /\ call.done) => ReturnedListsAreFirings(SeqSpikes)

\* The same for the inputs whose timestamps are all below u128::MAX.
C22_BelowLargestTs ==
    (/\ call.fn = "Solver::steps"
     /\ call.done
     /\ \A i \in DOMAIN SeqSpikes : SeqSpikes[i].ts < U128_MAX)
        => ReturnedListsAreFirings(SeqSpikes)

\* ------------------------------------------------------------------- C23
\* C23: in the entry layer of NN::solve a pending intra-layer feedback vector is
\* always consumed before the next external spike is read, and the feedback
\* update and any event it emits carry the timestamp of the external spike that
\* caused it.  Feedback is pending only after an external spike, with cur_ts
\* that spike's timestamp; while it is pending no step reads an input spike or
\* changes cur_ts, the entry layer's step is a feedback update at that
\* timestamp, and an event sent on the first channel has that timestamp.
C23_FeedbackBeforeNextSpike ==
    /\ [](IsSome(intra_inputs) =>
            /\ pc = "loop"
            /\ inputs > 1
            /\ cur_ts = spikes[inputs - 1].ts)
    /\ [][IsSome(intra_inputs) =>
            /\ inputs' = inputs
            /\ cur_ts' = cur_ts
            /\ entryVars' # entryVars =>
                  /\ ehist'[2].kind = "intra"
                  /\ ehist'[2].ts = spikes[inputs - 1].ts
                  /\ \A i \in 1..Dim(1) :
                        layer'[i] = HandleSpikeVars(layer[i], Unwrap(intra_inputs)[i],
                                                    spikes[inputs - 1].ts)
            /\ Len(chan'[1]) > Len(chan[1]) =>
                  chan'[1][Len(chan'[1])].ts = spikes[inputs - 1].ts]_vars

\* The feedback of the first of two spikes was consumed, and it fired a neuron
\* and sent an event; the second spike, one time unit later, is still unread.
C23_Witness ==
    /\ Len(spikes) = 2
    /\ spikes[2].ts = 2
    /\ inputs = 2
    /\ ehist[2] = Step("intra", 1, TRUE)
    /\ sent[1] = <<1, 1>>

\* ------------------------------------------------------------------- C24
\* The activation of neuron i of the entry layer in the step of the call: in a
\* feedback step every neuron is updated; in an external step only the first.
ActivationIn(i) ==
    IF call.arg[1] = "intra" THEN call.arg[2][i]
    ELSE IF i = 1 THEN call.arg[2][1] ELSE 0

\* C24: in every event the entry layer sends downstream and in every vector it
\* multiplies by the intra-layer weight matrix to build feedback, the entry of
\* a neuron that did not fire in that step (activation not above the threshold)
\* is zero.
C24_OnlyFiredContribute ==
    (call.fn = "entry outcome" /\ call.done /\ call.ret.spiked) =>
        \A i \in 1..2 :
            ~FiringRule(ActivationIn(i)) =>
                /\ Unwrap(call.ret.event).arr[i] = 0
                /\ Unwrap(call.ret.multiplied)[i] = 0

\* With the activations of the LIF neurons, which are 0.0 or 1.0, every entry of
\* an event on the first channel is zero or above the threshold.
C24_LifActivations ==
    \A x \in 1..Len(chan[1]) : \A i \in 1..Dim(1) :
        chan[1][x].arr[i] = 0 \/ FiringRule(chan[1][x].arr[i])

\* ------------------------------------------------------------------- C25
\* The manager of layer k has ended the stream: it returned end-of-stream to a
\* worker, or its output channel is closed.
StreamEnded(k) ==
    \/ mgr[k].eos
    \/ closed[k]
    \/ \E i \in Tokens(k) : worker[k][i].at = "exit"

\* C25: a Layer Manager closes its output channel and returns end-of-stream to
\* workers only when its input channel is closed and empty and no feedback pass
\* is pending; every event received before the input closed, and the feedback
\* pass of the last such event, is fully processed and forwarded before
\* end-of-stream.  When the stream of layer k has ended, the input channel is
\* closed and empty, no timestep is in progress (no input held, no commit
\* buffered, no worker between next and commit), no feedback is pending, and the
\* last timestep the manager took up is the one it forwarded last.
C25_GracefulEndOfStream ==
    \A k \in Managed :
        StreamEnded(k) =>
            /\ closed[InputOf(k)]
            /\ chan[InputOf(k)] = <<>>
            /\ ~IsSome(mgr[k].fb)
            /\ ~IsSome(mgr[k].cur)
            /\ \A j \in Tokens(k) : ~IsSome(mgr[k].acc[j])
            /\ \A i \in Tokens(k) : worker[k][i].at # "has"
            /\ mgr[k].last # NoStep => sent[k][2] = mgr[k].last.ts

\* The manager of the second layer ended the stream after two events, the last
\* one with a feedback pass, and forwarded them.
C25_Witness ==
    /\ 2 \in Managed
    /\ mgr[2].eos
    /\ closed[2]
    /\ mgr[2].last.kind = "intra"
    /\ mgr[2].last.ts = 2
    /\ mgr[2].prev.kind = "ext"
    /\ sent[2] = <<2, 2>>

\* ------------------------------------------------------------------- C26
\* The pipeline run layer by layer, each layer on the whole event sequence of
\* the layer before it and its neurons in index order: what solve sends and
\* returns when no two threads ever run at the same time.
RECURSIVE RefFeedback(_, _, _, _)
\* The entry layer's feedback passes at time ts, from the feedback vector v.
RefFeedback(nt, st, v, ts) ==
    LET n == nt.dims[1]
        out == [i \in 1..n |-> HandleSpikeOut(st[i], v[i], ts)]
        st1 == [i \in 1..n |-> HandleSpikeVars(st[i], v[i], ts)]
        r == IntraOutcome(ts, out, nt.intra[1], n)
    IN  IF r.spiked
        THEN LET rest == RefFeedback(nt, st1, Unwrap(r.intra_inputs), ts)
             IN  [layer |-> rest.layer, events |-> <<Unwrap(r.event)>> \o rest.events]
        ELSE [layer |-> st1, events |-> <<>>]

RECURSIVE RefEntry(_, _, _, _)
\* The events the entry layer sends from the i-th input spike on.
RefEntry(nt, input, i, st) ==
    IF i > Len(input) THEN <<>>
    ELSE LET neuron_id == input[i].neuron_id
             ts == input[i].ts
             w == nt.input_weights[neuron_id]
             out == HandleSpikeOut(st[neuron_id], w, ts)
             st1 == [st EXCEPT ![neuron_id] = HandleSpikeVars(@, w, ts)]
             r == ExternalOutcome(ts, neuron_id, out, nt.intra[1], nt.dims[1])
         IN  IF r.spiked
             THEN LET fb == RefFeedback(nt, st1, Unwrap(r.intra_inputs), ts)
                  IN  <<Unwrap(r.event)>> \o fb.events
                         \o RefEntry(nt, input, i + 1, fb.layer)
             ELSE RefEntry(nt, input, i + 1, st1)

\* One barrier of layer k on the weighted input win at time ts.
RefBarrier(nt, k, vs, win, ts) ==
    LET n == nt.dims[k]
        out == [j \in 1..n |-> HandleSpikeOut(vs[j], win[j], ts)]
    IN  [vars |-> [j \in 1..n |-> HandleSpikeVars(vs[j], win[j], ts)],
         spiked |-> \E j \in 1..n : Fired(out[j]),
         arr |-> [j \in 1..n |-> IF Fired(out[j]) THEN out[j] ELSE 0]]

RECURSIVE RefLayer(_, _, _, _, _)
\* The events layer k forwards for the events of the layer before it, from the
\* i-th on: one per event, and one more for its feedback pass.
RefLayer(nt, k, events, i, vs) ==
    IF i > Len(events) THEN <<>>
    ELSE LET ev == events[i]
             n == nt.dims[k]
             b1 == RefBarrier(nt, k, vs,
                              Dot(ev.arr, nt.synapses[k - 1], nt.dims[k - 1], n), ev.ts)
             b2 == RefBarrier(nt, k, b1.vars, Dot(b1.arr, nt.intra[k], n, n), ev.ts)
         IN  IF b1.spiked
             THEN <<[ts |-> ev.ts, arr |-> b1.arr], [ts |-> ev.ts, arr |-> b2.arr]>>
                     \o RefLayer(nt, k, events, i + 1, b2.vars)
             ELSE <<[ts |-> ev.ts, arr |-> b1.arr]>>
                     \o RefLayer(nt, k, events, i + 1, b1.vars)

RECURSIVE RefEvents(_, _, _)
\* Everything sent on channel k in the whole solve.
RefEvents(nt, input, k) ==
    IF k = 1
    THEN RefEntry(nt, input, 1, [i \in 1..nt.dims[1] |-> NewNeuron])
    ELSE RefLayer(nt, k, RefEvents(nt, input, k - 1), 1,
                  [j \in 1..nt.dims[k] |-> NewNeuron])

RECURSIVE ExpandAll(_, _)
ExpandAll(events, i) ==
    IF i > Len(events) THEN <<>> ELSE Expand(events[i]) \o ExpandAll(events, i + 1)

\* q is a run of consecutive elements of s.
IsInfix(q, s) ==
    \E a \in 0..(Len(s) - Len(q)) : \A x \in 1..Len(q) : q[x] = s[a + x]

\* C26: for a fixed network and input, the output of NN::solve is the same under
\* every interleaving of the worker threads: the order in which the workers of
\* a layer call next and commit changes no forwarded event and not the
\* returned spike sequence.  Once the entry layer has gone through the input,
\* the events in flight on every channel are consecutive events of the one
\* sequence that depends on the network and the input only, and solve returns
\* the spikes of that sequence for the last channel.
C26_InterleavingIndependent ==
    pc \in {"drop", "drain", "done"} =>
        /\ \A k \in 1..NL : IsInfix(chan[k], RefEvents(net, spikes, k))
        /\ pc = "done" => output = ExpandAll(RefEvents(net, spikes, NL), 1)

\* solve has returned two spikes or more from a network whose second layer has
\* two worker threads, after a timestep in which both neurons of that layer
\* fired.
C26_Witness ==
    /\ pc = "done"
    /\ NL >= 2
    /\ Dim(2) = 2
    /\ Len(output) >= 2
    /\ \E x \in 1..Len(RefEvents(net, spikes, 2)) :
          \A j \in 1..2 : Fired(RefEvents(net, spikes, 2)[x].arr[j])

\* ------------------------------------------------------------------- C27
\* The events sent on channel k and not yet received.
InFlight(k) == Len(chan[k])

\* C27: every channel between pipeline stages is bounded: the number of events
\* sent but not yet received on any inter-stage channel never exceeds a fixed
\* capacity that does not depend on the number of input spikes.  A capacity
\* that does not grow with the input is below the length of the inputs longer
\* than it: on an input of two spikes or more, fewer events are in flight on
\* any channel than the input has spikes.
C27_ChannelsBounded ==
    Len(spikes) >= 2 => \A k \in 1..NL : InFlight(k) < Len(spikes)

\* Every spike of the input has its event in flight on the last channel when
\* the entry layer leaves its loop: nothing is received before that.
C27_AllInFlight ==
    /\ NL = 1
    /\ pc = "drop"
    /\ Len(spikes) = MaxInputs
    /\ InFlight(1) >= Len(spikes)

\* ------------------------------------------------------------------- C28
\* C28: when the entry layer of NN::solve consumes an external spike addressed
\* to neuron n, only neuron n's state is updated (with input_weights[n]); the
\* state of every other entry-layer neuron is left unchanged by that step.
C28_OnlyAddressedNeuronUpdated ==
    [][inputs' = inputs + 1 =>
         LET n == spikes[inputs].neuron_id
         IN  /\ layer'[n] = HandleSpikeVars(layer[n], net.input_weights[n],
                                            spikes[inputs].ts)
             /\ \A i \in NeuronIds \ {n} : layer'[i] = layer[i]]_vars

\* The first spike has just been consumed by an entry layer of two neurons: the
\* addressed neuron fired and was reset, the other one is as it was created,
\* with the feedback to it still pending.
C28_Witness ==
    /\ Dim(1) = 2
    /\ inputs = 2
    /\ ehist[2] = Step("ext", spikes[1].ts, TRUE)
    /\ IsSome(intra_inputs)
    /\ layer[spikes[1].neuron_id].v_mem_current = Cfg.v_reset
    /\ \A i \in NeuronIds \ {spikes[1].neuron_id} : layer[i] = NewNeuron

\* ------------------------------------------------------------------- C29
\* The neuron records ts as the time of its last update.
RecordedAt(st, ts) == st.ts_curr = ts \/ st.ts_old = ts

\* C29: in the LIF fixture, the delta-t used by each handle_spike update is the
\* time elapsed between the timestamp of this update and the timestamp of the
\* neuron's previous update (never negative), and after the update the neuron's
\* recorded last-update time is the timestamp of this update.  For two updates
\* in timestamp order.
C29_DeltaTIsElapsedTime ==
    (call.fn = "handle_spike" /\ call.done /\ call.arg[1] <= call.arg[2]) =>
        /\ call.ret.delta_t = call.arg[2] - call.arg[1]
        /\ call.ret.delta_t >= 0
        /\ RecordedAt(call.ret.first, call.arg[1])
        /\ RecordedAt(call.ret.second, call.arg[2])

====
